---- MODULE Spec2Model ----
(***************************************************************************)
(* Model of cli/test-utils/src/util.rs: the test harness' process session  *)
(* (TestCommand) with the process-wide working directory and               *)
(* CURRENT_DIR_LOCK, the workspace id counter (NEXT_ID), the retry         *)
(* combinator (Retry), command execution (output and the assertions) and  *)
(* the fixture normaliser (IGNORE_IN_FIXTURES).                            *)
(***************************************************************************)
EXTENDS Integers, Sequences, FiniteSets, TLC

(***************************************************************************)
(* Bounds                                                                  *)
(***************************************************************************)
\* sessions (TestCommand values) created in one run, over all threads
MaxSessions == 3
\* calls of set_current_dir in one run, over all sessions
MaxSetDir == 2
\* largest attempt budget given to Retry::new
MaxRemaining == 3
\* calls of TestProject::new in one run (far below usize::MAX, where
\* fetch_add would wrap)
MaxProjects == 3
\* fragments a text is made of
MaxFrags == 4
\* arguments given to one process::Command
MaxArgs == 2
\* child processes spawned by one session in one run
MaxSpawns == 1
\* pieces a fixture and a captured stream are made of
MaxSegs == 3
\* calls of tty_fixture_path with one path
MaxCalls == 2
\* components of the path given to create_file
MaxDepth == 3

\* test threads of the process
Threads == {"t1", "t2"}
Sessions == 1..MaxSessions
NoSession == 0
NoThread == "none"

\* directories that exist; the process starts in InitDir
InitDir == "d0"
Dirs == {"d0", "d1", "d2"}
\* a path that does not exist
MissingDir == "nx"
Paths == Dirs \cup {MissingDir}

VARIABLES
    \* ---- process-wide state ----
    locked,            \* CURRENT_DIR_LOCK is locked
    cwd,               \* the process working directory (std::env::current_dir)
    \* ---- TestCommand, per session ----
    st,                \* "none" | "creating" | "live" | "dropping" | "dropped"
    owner,             \* the thread that created the session
    saved_cwd,         \* TestCommand.saved_cwd
    current_dir_lock,  \* TestCommand.current_dir_lock is Some(guard)
    didSet,            \* history: set_current_dir has acquired the lock for it
    \* ---- per thread ----
    pc,                \* position of the thread inside the call it is making
    cur,               \* the session that call is about
    arg,               \* the path given to set_current_dir
    tlock,             \* the thread holds the guard in a local (`_lock`)
    unwinding,         \* the thread is unwinding from a panic
    nSetDir,           \* calls of set_current_dir so far
    \* ---- Retry::run ----
    remaining,         \* Retry.remaining
    delay,             \* Retry.delay: "None" | "Some"
    r_pc,              \* "off" | "call" | "match" | "done"
    r_init,            \* history: the value of remaining given to Retry::new
    outcomes,          \* history: what each invocation of the callback returned
    sleeps,            \* history: calls of std::thread::sleep
    r_result,          \* what Retry::run returned
    \* ---- TestProject::new ----
    NEXT_ID,           \* the AtomicUsize NEXT_ID
    n_pc,              \* per thread: "idle" | "project"
    n_name,            \* per thread: the name given to TestProject::new
    n_id,              \* per thread: the local `id`
    projects,          \* the directory names given to TempProject::with_style
    \* ---- IGNORE_IN_FIXTURES.replace_all ----
    text,              \* a text: a fixture file or a captured stream
    f_pc,              \* "off" | "text" | "once" | "twice"
    out1,              \* IGNORE_IN_FIXTURES.replace_all(text, "")
    out2,              \* IGNORE_IN_FIXTURES.replace_all(out1, "")
    \* ---- one call that runs the command ----
    e_op,              \* the method of TestCommand that is called
    e_pc,              \* "off" | "call" | "captured" | "done"
    e_out,             \* what self.cmd.output() gave: an Output or SpawnError
    e_res,             \* "none" | "returned" | "panicked"
    e_ret,             \* the Output the method returned, NoOutput when none
    \* ---- the process::Command of one session ----
    cmd,               \* TestCommand.cmd: program, arguments, environment, directory
    c_last,            \* history: the method called last on the session, "off" when none
    overridden,        \* history: the caller chose the directory of cmd itself
    children,          \* history: child processes spawned so far
    child,             \* history: the child spawned last, NoChild when none
    \* ---- stdout_matches_path / stderr_matches_path ----
    m_segs,            \* history: the pieces of the fixture and of the stream, paired
    m_file,            \* the file at expected_path: "present" | "missing" | "off"
    m_op,              \* the method called: "stdout_matches_path" | "stderr_matches_path"
    m_pc,              \* "off" | "call" | "done"
    m_expected,        \* the local `expected` after replace_all
    m_out,             \* the local `out`
    m_res,             \* "none" | "returned" | "panicked"
    \* ---- tty_fixture_path ----
    atty,              \* atty::is(Stream::Stdout) if it were asked now
    IS_TTY,            \* the Lazy IS_TTY: "unset" | "tty" | "notty"
    t_path,            \* the path given to tty_fixture_path
    t_results,         \* history: what each call with t_path returned
    \* ---- TestProject::create_file ----
    fs_dirs,           \* the directories of the file system
    fs_files,          \* the files of the file system and their content
    fs_dirs0,          \* history: fs_dirs when create_file was called
    fs_files0,         \* history: fs_files when create_file was called
    f_path,            \* the argument `path`
    f_contents,        \* the argument `contents`
    io_fail,           \* the device refuses the write of data (it is full)
    cf_pc,             \* "off" | "call" | "mkdir" | "create" | "write" | "ret" | "done" | "panicked"
    cf_buf,            \* the data held by the BufWriter
    cf_ret             \* the path returned, NoPath when none

sessVars == <<locked, cwd, st, owner, saved_cwd, current_dir_lock, didSet,
              pc, cur, arg, tlock, unwinding, nSetDir>>

retryVars == <<remaining, delay, r_pc, r_init, outcomes, sleeps, r_result>>

idVars == <<NEXT_ID, n_pc, n_name, n_id, projects>>

normVars == <<text, f_pc, out1, out2>>

execVars == <<e_op, e_pc, e_out, e_res, e_ret>>

cmdVars == <<cmd, c_last, overridden, children, child>>

cmpVars == <<m_segs, m_file, m_op, m_pc, m_expected, m_out, m_res>>

ttyVars == <<atty, IS_TTY, t_path, t_results>>

fsVars == <<fs_dirs, fs_files, fs_dirs0, fs_files0, f_path, f_contents, io_fail, cf_pc, cf_buf, cf_ret>>

vars == <<sessVars, retryVars, idVars, normVars, execVars, cmdVars, cmpVars, ttyVars, fsVars>>

\* what the operations of one component leave alone
nonSessVars == <<retryVars, idVars, normVars, execVars, cmdVars, cmpVars, ttyVars, fsVars>>
nonRetryVars == <<sessVars, idVars, normVars, execVars, cmdVars, cmpVars, ttyVars, fsVars>>
nonIdVars == <<sessVars, retryVars, normVars, execVars, cmdVars, cmpVars, ttyVars, fsVars>>
nonNormVars == <<sessVars, retryVars, idVars, execVars, cmdVars, cmpVars, ttyVars, fsVars>>
nonExecVars == <<sessVars, retryVars, idVars, normVars, cmdVars, cmpVars, ttyVars, fsVars>>
nonSessCmdVars == <<retryVars, idVars, normVars, execVars, cmpVars, ttyVars, fsVars>>
nonCmdVars == <<sessVars, retryVars, idVars, normVars, execVars, cmpVars, ttyVars, fsVars>>
nonCmpVars == <<sessVars, retryVars, idVars, normVars, execVars, cmdVars, ttyVars, fsVars>>
nonTtyVars == <<sessVars, retryVars, idVars, normVars, execVars, cmdVars, cmpVars, fsVars>>
nonFsVars == <<sessVars, retryVars, idVars, normVars, execVars, cmdVars, cmpVars, ttyVars>>

(***************************************************************************)
(* eyre::Result<T> of the callback given to Retry::run. The error of the   *)
(* i-th invocation is Err(i): each invocation makes its own Report.        *)
(***************************************************************************)
Values == {42, 7}
Ok(v) == [ok |-> TRUE, val |-> v]
Err(e) == [ok |-> FALSE, val |-> e]
NoResult == [ok |-> FALSE, val |-> 0]
Delays == {"None", "Some"}

(***************************************************************************)
(* std::process::Output as the harness reads it: the exit status (an exit  *)
(* code, or none when a signal ended the child) and the two streams.       *)
(***************************************************************************)
NoCode == -1
ExitCodes == {0, 1, NoCode}
Streams == {<<>>, <<"x">>}
Outputs == [status : ExitCodes, stdout : Streams, stderr : Streams]
\* self.cmd.output() returned Err: the child could not be spawned
SpawnError == [status |-> NoCode, stdout |-> <<"spawn">>, stderr |-> <<>>]
NoOutput == [status |-> NoCode, stdout |-> <<"none">>, stderr |-> <<>>]

(***************************************************************************)
(* std::process::Command as the harness configures it: the program, the    *)
(* arguments, what was done to the environment variable the test sets, and *)
(* the directory given to Command::current_dir, NoDir when none was given: *)
(* the child then starts in the working directory of the process.          *)
(***************************************************************************)
\* self.inner.root(): the root of the workspace
WorkspaceRoot == "d1"
NoDir == "inherit"
NoCmd == [prog |-> "none", args |-> <<>>, env |-> "inherited", dir |-> NoDir]
NoChild == [dir |-> NoDir, overridden |-> FALSE]
\* no PathBuf has been returned
NoPath == <<"none">>

\* process::Command::new(prog)
CommandNew(prog) == [prog |-> prog, args |-> <<>>, env |-> "inherited", dir |-> NoDir]

(***************************************************************************)
(* CURRENT_DIR_LOCK: a parking_lot::Mutex<()>, not re-entrant.             *)
(***************************************************************************)
\* lock() returns only when the mutex is free
MutexFree == ~locked

\* the guards alive in the process: locals of threads and fields of sessions
ThreadGuards == {t \in Threads : tlock[t]}
SessionGuards == {s \in Sessions : current_dir_lock[s]}

\* the live sessions of thread t
LiveOf(t) == {s \in Sessions : st[s] = "live" /\ owner[s] = t}

\* the next unused session slot
FreshSession == CHOOSE s \in Sessions : st[s] = "none" /\ \A r \in Sessions : r < s => st[r] # "none"

InitSess ==
    /\ locked = FALSE
    /\ cwd = InitDir
    /\ st = [s \in Sessions |-> "none"]
    /\ owner = [s \in Sessions |-> NoThread]
    /\ saved_cwd = [s \in Sessions |-> InitDir]
    /\ current_dir_lock = [s \in Sessions |-> FALSE]
    /\ didSet = [s \in Sessions |-> FALSE]
    /\ pc = [t \in Threads |-> "idle"]
    /\ cur = [t \in Threads |-> NoSession]
    /\ arg = [t \in Threads |-> InitDir]
    /\ tlock = [t \in Threads |-> FALSE]
    /\ unwinding = [t \in Threads |-> FALSE]
    /\ nSetDir = 0

(***************************************************************************)
(* TestProject::forge_command / cast_command                               *)
(***************************************************************************)
\* the call: the command is built, the thread goes on to CURRENT_DIR_LOCK.lock()
ForgeCommand(t) ==
    /\ pc[t] = "idle"
    /\ UNCHANGED nonSessVars
    /\ \E s \in Sessions : st[s] = "none"
    /\ LET s == FreshSession IN
        /\ st' = [st EXCEPT ![s] = "creating"]
        /\ owner' = [owner EXCEPT ![s] = t]
        /\ cur' = [cur EXCEPT ![t] = s]
    /\ pc' = [pc EXCEPT ![t] = "fc_lock"]
    /\ UNCHANGED <<locked, cwd, saved_cwd, current_dir_lock, didSet, arg, tlock,
                   unwinding, nSetDir>>

\* a lock() that does not wait for the mutex
ForgeCommandLock_NoWait(t) ==
    /\ pc[t] = "fc_lock"
    /\ UNCHANGED nonSessVars
    /\ locked' = TRUE
    /\ tlock' = [tlock EXCEPT ![t] = TRUE]
    /\ pc' = [pc EXCEPT ![t] = "fc_read"]
    /\ UNCHANGED <<cwd, st, owner, saved_cwd, current_dir_lock, didSet, cur, arg,
                   unwinding, nSetDir>>

\* let _lock = CURRENT_DIR_LOCK.lock();
ForgeCommandLock(t) ==
    /\ pc[t] = "fc_lock"
    /\ UNCHANGED nonSessVars
    /\ MutexFree
    /\ locked' = TRUE
    /\ tlock' = [tlock EXCEPT ![t] = TRUE]
    /\ pc' = [pc EXCEPT ![t] = "fc_read"]
    /\ UNCHANGED <<cwd, st, owner, saved_cwd, current_dir_lock, didSet, cur, arg,
                   unwinding, nSetDir>>

\* TestCommand { .., current_dir_lock: None, saved_cwd: current_dir() }
ForgeCommandRead(t) ==
    /\ pc[t] = "fc_read"
    /\ UNCHANGED nonSessVars
    /\ saved_cwd' = [saved_cwd EXCEPT ![cur[t]] = cwd]
    /\ current_dir_lock' = [current_dir_lock EXCEPT ![cur[t]] = FALSE]
    /\ st' = [st EXCEPT ![cur[t]] = "live"]
    /\ pc' = [pc EXCEPT ![t] = "fc_ret"]
    /\ UNCHANGED <<locked, cwd, owner, didSet, cur, arg, tlock, unwinding, nSetDir>>

\* the function returns: `_lock` goes out of scope
ForgeCommandReturn(t) ==
    /\ pc[t] = "fc_ret"
    /\ UNCHANGED nonSessVars
    /\ locked' = FALSE
    /\ tlock' = [tlock EXCEPT ![t] = FALSE]
    /\ pc' = [pc EXCEPT ![t] = "idle"]
    /\ cur' = [cur EXCEPT ![t] = NoSession]
    /\ UNCHANGED <<cwd, st, owner, saved_cwd, current_dir_lock, didSet, arg,
                   unwinding, nSetDir>>

(***************************************************************************)
(* TestCommand::set_current_dir                                            *)
(***************************************************************************)
\* the call and its first statement: drop(self.current_dir_lock.take())
SetCurrentDir(t, s, p) ==
    /\ pc[t] = "idle"
    /\ UNCHANGED nonSessVars
    /\ s \in LiveOf(t)
    /\ nSetDir < MaxSetDir
    /\ nSetDir' = nSetDir + 1
    /\ locked' = IF current_dir_lock[s] THEN FALSE ELSE locked
    /\ current_dir_lock' = [current_dir_lock EXCEPT ![s] = FALSE]
    /\ pc' = [pc EXCEPT ![t] = "scd_lock"]
    /\ cur' = [cur EXCEPT ![t] = s]
    /\ arg' = [arg EXCEPT ![t] = p]
    /\ UNCHANGED <<cwd, st, owner, saved_cwd, didSet, tlock, unwinding>>

\* a lock() that does not wait for the mutex
SetCurrentDirLock_NoWait(t) ==
    /\ pc[t] = "scd_lock"
    /\ UNCHANGED nonSessVars
    /\ locked' = TRUE
    /\ current_dir_lock' = [current_dir_lock EXCEPT ![cur[t]] = TRUE]
    /\ didSet' = [didSet EXCEPT ![cur[t]] = TRUE]
    /\ pc' = [pc EXCEPT ![t] = "scd_chdir"]
    /\ UNCHANGED <<cwd, st, owner, saved_cwd, cur, arg, tlock, unwinding, nSetDir>>

\* let lock = CURRENT_DIR_LOCK.lock(); self.current_dir_lock = Some(lock);
SetCurrentDirLock(t) ==
    /\ pc[t] = "scd_lock"
    /\ UNCHANGED nonSessVars
    /\ MutexFree
    /\ locked' = TRUE
    /\ current_dir_lock' = [current_dir_lock EXCEPT ![cur[t]] = TRUE]
    /\ didSet' = [didSet EXCEPT ![cur[t]] = TRUE]
    /\ pc' = [pc EXCEPT ![t] = "scd_chdir"]
    /\ UNCHANGED <<cwd, st, owner, saved_cwd, cur, arg, tlock, unwinding, nSetDir>>

\* pretty_err(p, std::env::set_current_dir(p)): the directory changes, or the
\* call panics when the path does not exist
SetCurrentDirChdir(t) ==
    /\ pc[t] = "scd_chdir"
    /\ UNCHANGED nonSessVars
    /\ \/ /\ arg[t] \in Dirs
          /\ cwd' = arg[t]
          /\ pc' = [pc EXCEPT ![t] = "idle"]
          /\ cur' = [cur EXCEPT ![t] = NoSession]
          /\ arg' = [arg EXCEPT ![t] = InitDir]
          /\ UNCHANGED unwinding
       \/ \* the panic carries the path (pretty_err) until the unwinding ends
          /\ arg[t] \notin Dirs
          /\ cwd' = cwd
          /\ pc' = [pc EXCEPT ![t] = "unwind"]
          /\ cur' = [cur EXCEPT ![t] = NoSession]
          /\ unwinding' = [unwinding EXCEPT ![t] = TRUE]
          /\ UNCHANGED arg
    /\ UNCHANGED <<locked, st, owner, saved_cwd, current_dir_lock, didSet,
                   tlock, nSetDir>>

(***************************************************************************)
(* Running the command: output, unchecked_output and the assertions        *)
(***************************************************************************)
\* self.cmd.output(): the child is spawned and the thread waits for it
Execute(t, s) ==
    /\ pc[t] = "idle"
    /\ UNCHANGED nonSessVars
    /\ s \in LiveOf(t)
    /\ pc' = [pc EXCEPT ![t] = "exec"]
    /\ cur' = [cur EXCEPT ![t] = s]
    /\ UNCHANGED <<locked, cwd, st, owner, saved_cwd, current_dir_lock, didSet,
                   arg, tlock, unwinding, nSetDir>>

\* the child has exited: the call returns, or panics (unwrap, expect_success,
\* a failed assertion)
ExecuteEnd(t) ==
    /\ pc[t] = "exec"
    /\ UNCHANGED nonSessVars
    /\ \/ /\ pc' = [pc EXCEPT ![t] = "idle"]
          /\ UNCHANGED unwinding
       \/ /\ pc' = [pc EXCEPT ![t] = "unwind"]
          /\ unwinding' = [unwinding EXCEPT ![t] = TRUE]
    /\ cur' = [cur EXCEPT ![t] = NoSession]
    /\ UNCHANGED <<locked, cwd, st, owner, saved_cwd, current_dir_lock, didSet,
                   arg, tlock, nSetDir>>

(***************************************************************************)
(* impl Drop for TestCommand                                               *)
(***************************************************************************)
\* the session goes out of scope at the end of the test step
DropCommand(t, s) ==
    /\ pc[t] = "idle"
    /\ UNCHANGED nonSessVars
    /\ s \in LiveOf(t)
    /\ st' = [st EXCEPT ![s] = "dropping"]
    /\ pc' = [pc EXCEPT ![t] = "drop_lock"]
    /\ cur' = [cur EXCEPT ![t] = s]
    /\ UNCHANGED <<locked, cwd, owner, saved_cwd, current_dir_lock, didSet, arg,
                   tlock, unwinding, nSetDir>>

\* a panic unwinds the thread's stack: each live session it owns is dropped
Unwind(t) ==
    /\ pc[t] = "unwind"
    /\ UNCHANGED nonSessVars
    /\ \/ /\ \E s \in LiveOf(t) :
                /\ st' = [st EXCEPT ![s] = "dropping"]
                /\ cur' = [cur EXCEPT ![t] = s]
          /\ pc' = [pc EXCEPT ![t] = "drop_lock"]
          /\ UNCHANGED <<unwinding, arg>>
       \/ /\ LiveOf(t) = {}
          /\ pc' = [pc EXCEPT ![t] = "idle"]
          /\ unwinding' = [unwinding EXCEPT ![t] = FALSE]
          /\ arg' = [arg EXCEPT ![t] = InitDir]
          /\ UNCHANGED <<st, cur>>
    /\ UNCHANGED <<locked, cwd, owner, saved_cwd, current_dir_lock, didSet,
                   tlock, nSetDir>>

\* a teardown that goes on without the lock when the session has no guard
DropLock_NoLock(t) ==
    /\ pc[t] = "drop_lock"
    /\ UNCHANGED nonSessVars
    /\ \/ /\ current_dir_lock[cur[t]]
          /\ current_dir_lock' = [current_dir_lock EXCEPT ![cur[t]] = FALSE]
          /\ tlock' = [tlock EXCEPT ![t] = TRUE]
       \/ /\ ~current_dir_lock[cur[t]]
          /\ UNCHANGED <<current_dir_lock, tlock>>
    /\ pc' = [pc EXCEPT ![t] = "drop_chdir"]
    /\ UNCHANGED <<locked, cwd, st, owner, saved_cwd, didSet, cur, arg, unwinding,
                   nSetDir>>

\* let _lock = self.current_dir_lock.take().unwrap_or_else(|| CURRENT_DIR_LOCK.lock());
DropLock(t) ==
    /\ pc[t] = "drop_lock"
    /\ UNCHANGED nonSessVars
    /\ \/ /\ current_dir_lock[cur[t]]
          /\ current_dir_lock' = [current_dir_lock EXCEPT ![cur[t]] = FALSE]
          /\ UNCHANGED locked
       \/ /\ ~current_dir_lock[cur[t]]
          /\ MutexFree
          /\ locked' = TRUE
          /\ UNCHANGED current_dir_lock
    /\ tlock' = [tlock EXCEPT ![t] = TRUE]
    /\ pc' = [pc EXCEPT ![t] = "drop_chdir"]
    /\ UNCHANGED <<cwd, st, owner, saved_cwd, didSet, cur, arg, unwinding, nSetDir>>

\* a Drop that forgets to restore the directory
DropChdir_NoRestore(t) ==
    /\ pc[t] = "drop_chdir"
    /\ UNCHANGED nonSessVars
    /\ pc' = [pc EXCEPT ![t] = "drop_unlock"]
    /\ UNCHANGED <<locked, cwd, st, owner, saved_cwd, current_dir_lock, didSet, cur,
                   arg, tlock, unwinding, nSetDir>>

\* let _ = std::env::set_current_dir(&self.saved_cwd);
DropChdir(t) ==
    /\ pc[t] = "drop_chdir"
    /\ UNCHANGED nonSessVars
    /\ cwd' = saved_cwd[cur[t]]
    /\ pc' = [pc EXCEPT ![t] = "drop_unlock"]
    /\ UNCHANGED <<locked, st, owner, saved_cwd, current_dir_lock, didSet, cur,
                   arg, tlock, unwinding, nSetDir>>

\* drop returns: `_lock` goes out of scope
DropReturn(t) ==
    /\ pc[t] = "drop_unlock"
    /\ UNCHANGED nonSessVars
    /\ locked' = FALSE
    /\ tlock' = [tlock EXCEPT ![t] = FALSE]
    /\ st' = [st EXCEPT ![cur[t]] = "dropped"]
    \* the value is gone: its fields read as in a session never created
    /\ owner' = [owner EXCEPT ![cur[t]] = NoThread]
    /\ saved_cwd' = [saved_cwd EXCEPT ![cur[t]] = InitDir]
    /\ didSet' = [didSet EXCEPT ![cur[t]] = FALSE]
    /\ cur' = [cur EXCEPT ![t] = NoSession]
    /\ pc' = [pc EXCEPT ![t] = IF unwinding[t] THEN "unwind" ELSE "idle"]
    /\ UNCHANGED <<cwd, current_dir_lock, arg, unwinding, nSetDir>>

Next ==
    \/ \E t \in Threads : ForgeCommand(t)
    \/ \E t \in Threads : ForgeCommandLock(t)
    \/ \E t \in Threads : ForgeCommandRead(t)
    \/ \E t \in Threads : ForgeCommandReturn(t)
    \/ \E t \in Threads, s \in Sessions, p \in Paths : SetCurrentDir(t, s, p)
    \/ \E t \in Threads : SetCurrentDirLock(t)
    \/ \E t \in Threads : SetCurrentDirChdir(t)
    \/ \E t \in Threads, s \in Sessions : Execute(t, s)
    \/ \E t \in Threads : ExecuteEnd(t)
    \/ \E t \in Threads, s \in Sessions : DropCommand(t, s)
    \/ \E t \in Threads : Unwind(t)
    \/ \E t \in Threads : DropLock(t)
    \/ \E t \in Threads : DropChdir(t)
    \/ \E t \in Threads : DropReturn(t)

\* the session model alone: no Retry is running
RetryOff ==
    /\ remaining = 0
    /\ delay = "None"
    /\ r_pc = "off"
    /\ r_init = 0
    /\ outcomes = <<>>
    /\ sleeps = 0
    /\ r_result = NoResult

\* ... and no workspace is being created
IdsOff ==
    /\ NEXT_ID = 0
    /\ n_pc = [t \in Threads |-> "idle"]
    /\ n_name = [t \in Threads |-> <<>>]
    /\ n_id = [t \in Threads |-> 0]
    /\ projects = <<>>

\* ... and no text is being normalised
NormOff ==
    /\ text = <<>>
    /\ f_pc = "off"
    /\ out1 = <<>>
    /\ out2 = <<>>

\* ... and no captured output is being judged
ExecOff ==
    /\ e_op = "none"
    /\ e_pc = "off"
    /\ e_out = NoOutput
    /\ e_res = "none"
    /\ e_ret = NoOutput

\* ... and no command is being configured
CmdOff ==
    /\ cmd = NoCmd
    /\ c_last = "off"
    /\ overridden = FALSE
    /\ children = 0
    /\ child = NoChild

\* ... and no output is being compared with a fixture
CmpOff ==
    /\ m_segs = <<>>
    /\ m_file = "off"
    /\ m_op = "none"
    /\ m_pc = "off"
    /\ m_expected = <<>>
    /\ m_out = <<>>
    /\ m_res = "none"

\* ... and no fixture path is being asked for
TtyOff ==
    /\ atty = FALSE
    /\ IS_TTY = "unset"
    /\ t_path = <<>>
    /\ t_results = <<>>

\* ... and no file is being created
FsOff ==
    /\ fs_dirs = {}
    /\ fs_files = <<>>
    /\ fs_dirs0 = {}
    /\ fs_files0 = <<>>
    /\ f_path = <<>>
    /\ f_contents = <<>>
    /\ io_fail = FALSE
    /\ cf_pc = "off"
    /\ cf_buf = <<>>
    /\ cf_ret = NoPath

Init == InitSess /\ RetryOff /\ IdsOff /\ NormOff /\ ExecOff /\ CmdOff /\ CmpOff /\ TtyOff /\ FsOff
Spec == Init /\ [][Next]_vars

(***************************************************************************)
(* Retry::new, Retry::try, Retry::run                                      *)
(***************************************************************************)
\* Retry::new(remaining, delay) followed by run(callback): the loop is entered
InitRetry ==
    /\ remaining \in 0..MaxRemaining
    /\ delay \in Delays
    /\ r_pc = "call"
    /\ r_init = remaining
    /\ outcomes = <<>>
    /\ sleeps = 0
    /\ r_result = NoResult

\* try: `match f()`: the callback is invoked and returns Ok(v) or a new error
RetryCall ==
    /\ r_pc = "call"
    /\ UNCHANGED nonRetryVars
    /\ \E o \in {Ok(v) : v \in Values} \cup {Err(Len(outcomes) + 1)} :
            outcomes' = Append(outcomes, o)
    /\ r_pc' = "match"
    /\ UNCHANGED <<remaining, delay, r_init, sleeps, r_result>>

Last(s) == s[Len(s)]

\* a guard that keeps one attempt back: `self.remaining > 1`
RetryMatch_OffByOne ==
    /\ r_pc = "match"
    /\ UNCHANGED nonRetryVars
    /\ \/ /\ ~Last(outcomes).ok
          /\ remaining > 1
          /\ remaining' = remaining - 1
          /\ sleeps' = IF delay = "Some" THEN sleeps + 1 ELSE sleeps
          /\ r_pc' = "call"
          /\ UNCHANGED r_result
       \/ /\ Last(outcomes).ok \/ remaining <= 1
          /\ r_result' = Last(outcomes)
          /\ r_pc' = "done"
          /\ UNCHANGED <<remaining, sleeps>>
    /\ UNCHANGED <<delay, r_init, outcomes>>

\* a first arm that retries whatever f() returned: `_ if self.remaining > 0`
RetryMatch_AnyResult ==
    /\ r_pc = "match"
    /\ UNCHANGED nonRetryVars
    /\ \/ /\ remaining > 0
          /\ remaining' = remaining - 1
          /\ sleeps' = IF delay = "Some" THEN sleeps + 1 ELSE sleeps
          /\ r_pc' = "call"
          /\ UNCHANGED r_result
       \/ /\ remaining = 0
          /\ r_result' = Last(outcomes)
          /\ r_pc' = "done"
          /\ UNCHANGED <<remaining, sleeps>>
    /\ UNCHANGED <<delay, r_init, outcomes>>

\* a counter that counts every attempt, the successful one too
RetryMatch_CountsSuccess ==
    /\ r_pc = "match"
    /\ UNCHANGED nonRetryVars
    /\ \/ /\ ~Last(outcomes).ok
          /\ remaining > 0
          /\ remaining' = remaining - 1
          /\ sleeps' = IF delay = "Some" THEN sleeps + 1 ELSE sleeps
          /\ r_pc' = "call"
          /\ UNCHANGED r_result
       \/ /\ Last(outcomes).ok
          /\ remaining' = IF remaining > 0 THEN remaining - 1 ELSE 0
          /\ r_result' = Last(outcomes)
          /\ r_pc' = "done"
          /\ UNCHANGED sleeps
       \/ /\ ~Last(outcomes).ok
          /\ remaining = 0
          /\ r_result' = Last(outcomes)
          /\ r_pc' = "done"
          /\ UNCHANGED <<remaining, sleeps>>
    /\ UNCHANGED <<delay, r_init, outcomes>>

\* a sleep after every failed attempt, the final one too
RetryMatch_SleepOnFinal ==
    /\ r_pc = "match"
    /\ UNCHANGED nonRetryVars
    /\ \/ /\ ~Last(outcomes).ok
          /\ remaining > 0
          /\ remaining' = remaining - 1
          /\ sleeps' = IF delay = "Some" THEN sleeps + 1 ELSE sleeps
          /\ r_pc' = "call"
          /\ UNCHANGED r_result
       \/ /\ Last(outcomes).ok
          /\ r_result' = Last(outcomes)
          /\ r_pc' = "done"
          /\ UNCHANGED <<remaining, sleeps>>
       \/ /\ ~Last(outcomes).ok
          /\ remaining = 0
          /\ sleeps' = IF delay = "Some" THEN sleeps + 1 ELSE sleeps
          /\ r_result' = Last(outcomes)
          /\ r_pc' = "done"
          /\ UNCHANGED remaining
    /\ UNCHANGED <<delay, r_init, outcomes>>

\* try: the arms of the match, and what run does with the result of try
RetryMatch ==
    /\ r_pc = "match"
    /\ UNCHANGED nonRetryVars
    /\ \/ \* Err(ref e) if self.remaining > 0: decrement, sleep, Ok(None); run loops
          /\ ~Last(outcomes).ok
          /\ remaining > 0
          /\ remaining' = remaining - 1
          /\ sleeps' = IF delay = "Some" THEN sleeps + 1 ELSE sleeps
          /\ r_pc' = "call"
          /\ UNCHANGED r_result
       \/ \* other => other.map(Some), Ok(v): run returns Ok(v)
          /\ Last(outcomes).ok
          /\ r_result' = Last(outcomes)
          /\ r_pc' = "done"
          /\ UNCHANGED <<remaining, sleeps>>
       \/ \* other => other.map(Some), Err(e): `?` in run returns Err(e)
          /\ ~Last(outcomes).ok
          /\ remaining = 0
          /\ r_result' = Last(outcomes)
          /\ r_pc' = "done"
          /\ UNCHANGED <<remaining, sleeps>>
    /\ UNCHANGED <<delay, r_init, outcomes>>

NextRetry ==
    \/ RetryCall
    \/ RetryMatch

\* one call of Retry::run, no session in the process
InitRetrySpec == InitSess /\ InitRetry /\ IdsOff /\ NormOff /\ ExecOff /\ CmdOff /\ CmpOff /\ TtyOff /\ FsOff
SpecRetry == InitRetrySpec /\ [][NextRetry]_vars

\* the invocations of the callback so far
Calls == Len(outcomes)

\* every invocation so far failed
AllFailed == \A i \in 1..Len(outcomes) : ~outcomes[i].ok

\* C5: when Retry::run, started with remaining = R, has returned and every
\* invocation of the operation failed, the operation was invoked exactly R + 1
\* times and the value returned is the error of invocation R + 1 itself.
C5_AlwaysFailing ==
    (r_pc = "done" /\ AllFailed) =>
        /\ Calls = r_init + 1
        /\ r_result = Err(r_init + 1)
        /\ r_result = outcomes[Calls]

\* C5 witness: a run with R = MaxRemaining >= 2 ends after R + 1 failures.
C5_Witness ==
    /\ r_pc = "done"
    /\ AllFailed
    /\ r_init = MaxRemaining
    /\ r_init >= 2
    /\ Calls = r_init + 1
    /\ ~r_result.ok

\* C6: when Retry::run has returned and some invocation k succeeded, then k
\* is the last invocation, k <= R + 1, all invocations before it failed, the
\* value returned is Ok with the value of invocation k, and the callback is
\* not invoked again. No run invokes the callback more than R + 1 times.
C6_FirstSuccess ==
    /\ Calls <= r_init + 1
    /\ (r_pc = "match" /\ Last(outcomes).ok) =>
            \A i \in 1..(Calls - 1) : ~outcomes[i].ok
    /\ (r_pc = "done" /\ ~AllFailed) =>
            /\ outcomes[Calls].ok
            /\ \A i \in 1..(Calls - 1) : ~outcomes[i].ok
            /\ r_result = Ok(outcomes[Calls].val)
            /\ ~ENABLED RetryCall

\* C6 witness: remaining = 2, the operation fails twice and then returns 42:
\* the run returns Ok(42) after 3 invocations.
C6_Witness ==
    /\ r_pc = "done"
    /\ r_init = 2
    /\ outcomes = <<Err(1), Err(2), Ok(42)>>
    /\ r_result = Ok(42)

\* C17: in every step of Retry::run the counter `remaining` does not increase
\* and stays in 0..R. A failed attempt made with remaining > 0 takes exactly
\* one off and leads to another attempt; a failed attempt made with
\* remaining = 0 ends the run with that error; a successful attempt leaves the
\* counter as it is; and a run that has ended has invoked the operation at
\* least once, also when R = 0.
C17_CounterMonotone ==
    [][ /\ remaining' <= remaining
        /\ remaining' \in 0..r_init
        /\ (r_pc = "match" /\ ~Last(outcomes).ok /\ remaining > 0) =>
                (remaining' = remaining - 1 /\ r_pc' = "call")
        /\ (r_pc = "match" /\ ~Last(outcomes).ok /\ remaining = 0) =>
                (r_pc' = "done" /\ r_result' = Last(outcomes) /\ remaining' = 0)
        /\ (r_pc = "match" /\ Last(outcomes).ok) =>
                (r_pc' = "done" /\ remaining' = remaining)
        /\ (r_pc = "call") => (remaining' = remaining /\ Len(outcomes') >= 1)
        /\ (r_pc' = "done") => Len(outcomes') >= 1
      ]_vars

\* C17 witness: R = 2, the first attempt fails and takes one off the counter,
\* the second succeeds and leaves it at 1.
C17_Witness ==
    /\ r_pc = "done"
    /\ r_init = 2
    /\ remaining = 1
    /\ outcomes = <<Err(1), Ok(7)>>

\* C20: the calls of std::thread::sleep made so far are as many as the failed
\* attempts that are followed by another attempt when a delay is configured,
\* and none when delay is None: none before the first attempt, none after a
\* successful attempt, none after the final failed attempt, at most R in all.
C20_SleepsBetweenAttempts ==
    /\ sleeps <= r_init
    /\ (delay = "None") => sleeps = 0
    /\ (Calls = 0) => sleeps = 0
    /\ (delay = "Some" /\ r_pc = "call") => sleeps = Calls
    /\ (delay = "Some" /\ r_pc \in {"match", "done"}) => sleeps = Calls - 1

\* C20 witness: R = 2 with a delay, three failed attempts: the run ended with
\* two sleeps, one after the first and one after the second failure.
C20_Witness ==
    /\ r_pc = "done"
    /\ delay = "Some"
    /\ r_init = 2
    /\ outcomes = <<Err(1), Err(2), Err(3)>>
    /\ sleeps = 2

(***************************************************************************)
(* TestProject::new and NEXT_ID                                            *)
(***************************************************************************)
\* the names tests give: text without or with a "-<digits>" ending
NameHints == {<<"a">>, <<"a", "-", "1">>, <<"a", "-", "1", "-", "0">>}

Digits == <<"0", "1", "2", "3", "4", "5", "6", "7", "8", "9">>

\* Display of a usize: its decimal digits
RECURSIVE Dec(_)
Dec(n) == IF n < 10 THEN <<Digits[n + 1]>> ELSE Dec(n \div 10) \o <<Digits[(n % 10) + 1]>>

\* format!("{name}-{id}")
FormatName(name, id) == name \o <<"-">> \o Dec(id)

\* the counter read without the increment: NEXT_ID.load(..)
NewFetchAdd_LoadOnly(t, name) ==
    /\ n_pc[t] = "idle"
    /\ UNCHANGED nonIdVars
    /\ Len(projects) + Cardinality({u \in Threads : n_pc[u] = "project"}) < MaxProjects
    /\ n_id' = [n_id EXCEPT ![t] = NEXT_ID]
    /\ NEXT_ID' = NEXT_ID
    /\ n_name' = [n_name EXCEPT ![t] = name]
    /\ n_pc' = [n_pc EXCEPT ![t] = "project"]
    /\ UNCHANGED projects

\* TestProject::new(name, ..): let id = NEXT_ID.fetch_add(1, Ordering::SeqCst);
NewFetchAdd(t, name) ==
    /\ n_pc[t] = "idle"
    /\ UNCHANGED nonIdVars
    /\ Len(projects) + Cardinality({u \in Threads : n_pc[u] = "project"}) < MaxProjects
    /\ n_id' = [n_id EXCEPT ![t] = NEXT_ID]
    /\ NEXT_ID' = NEXT_ID + 1
    /\ n_name' = [n_name EXCEPT ![t] = name]
    /\ n_pc' = [n_pc EXCEPT ![t] = "project"]
    /\ UNCHANGED projects

\* TempProject::with_style(&format!("{name}-{id}"), style)
NewProject(t) ==
    /\ n_pc[t] = "project"
    /\ UNCHANGED nonIdVars
    /\ projects' = Append(projects, [id |-> n_id[t], dir |-> FormatName(n_name[t], n_id[t])])
    /\ n_pc' = [n_pc EXCEPT ![t] = "idle"]
    /\ n_name' = [n_name EXCEPT ![t] = <<>>]
    /\ n_id' = [n_id EXCEPT ![t] = 0]
    /\ UNCHANGED NEXT_ID

NextIds ==
    \/ \E t \in Threads, name \in NameHints : NewFetchAdd(t, name)
    \/ \E t \in Threads : NewProject(t)

\* workspaces created on concurrent threads, no session and no Retry
InitIdsSpec == InitSess /\ RetryOff /\ IdsOff /\ NormOff /\ ExecOff /\ CmdOff /\ CmpOff /\ TtyOff /\ FsOff
SpecIds == InitIdsSpec /\ [][NextIds]_vars

\* C7: the ids drawn from NEXT_ID by the workspaces created so far, and by the
\* creations in progress, are pairwise distinct, and so are the directory
\* names "{name}-{id}" made from them, whatever the name hints.
C7_DistinctRoots ==
    /\ \A i, j \in 1..Len(projects) :
            i # j => (projects[i].id # projects[j].id /\ projects[i].dir # projects[j].dir)
    /\ \A t \in Threads : n_pc[t] = "project" =>
            /\ \A i \in 1..Len(projects) :
                    /\ projects[i].id # n_id[t]
                    /\ projects[i].dir # FormatName(n_name[t], n_id[t])
            /\ \A u \in Threads \ {t} : n_pc[u] = "project" => n_id[u] # n_id[t]

\* C7 witness: MaxProjects workspaces exist, two of them created with the same
\* name hint by creations that overlapped (the later id was formatted first).
C7_Witness ==
    /\ Len(projects) = MaxProjects
    /\ \E i, j \in 1..Len(projects) :
            /\ i < j
            /\ projects[i].id > projects[j].id
            /\ SubSeq(projects[i].dir, 1, 1) = SubSeq(projects[j].dir, 1, 1)
            /\ Len(projects[i].dir) = Len(projects[j].dir)

(***************************************************************************)
(* IGNORE_IN_FIXTURES and Regex::replace_all                               *)
(* The pattern has three alternatives, written here with ANY for a greedy  *)
(* run of characters, FEW for a lazy one and DOT for one character, none   *)
(* of which matches a newline:                                             *)
(*     "finished in " ANY "s"                                              *)
(*     "-->" ANY DOT "sol"                                                 *)
(*     "Location" FEW ".rs" ANY "Backtrace"                                *)
(* A text is a sequence of characters. The regex crate finds the leftmost  *)
(* match, the alternatives tried in order.                                 *)
(***************************************************************************)
NL == "\n"
FinishedIn == <<"f", "i", "n", "i", "s", "h", "e", "d", " ", "i", "n", " ">>
Arrow == <<"-", "-", ">">>
Sol == <<"s", "o", "l">>
Location == <<"L", "o", "c", "a", "t", "i", "o", "n">>
DotRs == <<".", "r", "s">>
Backtrace == <<"B", "a", "c", "k", "t", "r", "a", "c", "e">>

\* the pieces texts are made of
Fragments == {
    <<"-", "-", ">", "x">>,
    <<"s", "o">>,
    <<"l">>,
    <<"f", "i", "n", "i", "s", "h", "e", "d", " ", "i", "n", " ", "1", "s">>,
    <<"f", "i", "n", "i", "s", "h", "e", "d", " ", "i", "n", " ", "2", "2", "s">>,
    Location,
    <<"a", ".", "r", "s">>,
    Backtrace,
    <<NL>> }

RECURSIVE TextsOf(_)
TextsOf(k) ==
    IF k = 0 THEN {<<>>}
    ELSE LET P == TextsOf(k - 1) IN P \cup {p \o f : p \in P, f \in Fragments}

Texts == TextsOf(MaxFrags)

SetMax(S) == CHOOSE m \in S : \A x \in S : x <= m

\* the literal `lit` stands in s at position i
LitAt(s, i, lit) ==
    /\ i >= 1
    /\ i + Len(lit) - 1 <= Len(s)
    /\ SubSeq(s, i, i + Len(lit) - 1) = lit

\* the last position of the run of non-newline characters that starts at i
\* (i - 1 when s[i] is a newline or i is past the end): how far ANY can go
RECURSIVE DotRun(_, _)
DotRun(s, i) == IF i > Len(s) \/ s[i] = NL THEN i - 1 ELSE DotRun(s, i + 1)

\* "finished in " ANY "s": the end of the match that starts at i, 0 when
\* none. The greedy group takes the line up to its last "s".
FinishedEnd(s, i) ==
    IF ~LitAt(s, i, FinishedIn) THEN 0
    ELSE LET from == i + Len(FinishedIn)
             ends == {j \in from..(DotRun(s, from) + 1) : j <= Len(s) /\ s[j] = "s"}
         IN  IF ends = {} THEN 0 ELSE SetMax(ends)

\* "-->" ANY DOT "sol": the greedy group, one more character, the last "sol"
ArrowEnd(s, i) ==
    IF ~LitAt(s, i, Arrow) THEN 0
    ELSE LET from == i + Len(Arrow)
             run == DotRun(s, from)
             \* b: where "sol" starts; s[b - 1] is the DOT, inside the run
             starts == {b \in (from + 1)..(run + 1) : LitAt(s, b, Sol)}
         IN  IF starts = {} THEN 0 ELSE SetMax(starts) + Len(Sol) - 1

\* "Location" FEW ".rs" ANY "Backtrace": the lazy group stops at the first
\* ".rs" that a "Backtrace" follows on the line, the greedy one takes the
\* last "Backtrace" of the line
LocationEnd(s, i) ==
    IF ~LitAt(s, i, Location) THEN 0
    ELSE LET from == i + Len(Location)
             run == DotRun(s, from)
             rs == {q \in from..(run + 1) : LitAt(s, q, DotRs)}
             bts == {b \in from..(run + 1) :
                        /\ LitAt(s, b, Backtrace)
                        /\ \E q \in rs : q + Len(DotRs) <= b}
         IN  IF bts = {} THEN 0 ELSE SetMax(bts) + Len(Backtrace) - 1

\* the end of the match of IGNORE_IN_FIXTURES that starts at i, 0 when none
MatchEnd(s, i) ==
    IF FinishedEnd(s, i) > 0 THEN FinishedEnd(s, i)
    ELSE IF ArrowEnd(s, i) > 0 THEN ArrowEnd(s, i)
    ELSE LocationEnd(s, i)

\* replace_all(s, ""): the matches, found left to right without overlap, are
\* cut out of the text
RECURSIVE ReplaceFrom(_, _)
ReplaceFrom(s, i) ==
    IF i > Len(s) THEN <<>>
    ELSE LET e == MatchEnd(s, i)
         IN  IF e > 0 THEN ReplaceFrom(s, e + 1)
             ELSE <<s[i]>> \o ReplaceFrom(s, i + 1)

ReplaceAll(s) == ReplaceFrom(s, 1)

\* a text is read: a fixture file, or the stdout / stderr of an Output
InitNorm ==
    /\ text \in Texts
    /\ f_pc = "text"
    /\ out1 = <<>>
    /\ out2 = <<>>

\* IGNORE_IN_FIXTURES.replace_all(&expected, "")
Normalize ==
    /\ f_pc = "text"
    /\ UNCHANGED nonNormVars
    /\ out1' = ReplaceAll(text)
    /\ f_pc' = "once"
    /\ UNCHANGED <<text, out2>>

\* the pattern applied to a text that has been through it
NormalizeAgain ==
    /\ f_pc = "once"
    /\ UNCHANGED nonNormVars
    /\ out2' = ReplaceAll(out1)
    /\ f_pc' = "twice"
    /\ UNCHANGED <<text, out1>>

NextNorm ==
    \/ Normalize
    \/ NormalizeAgain

InitNormSpec == InitSess /\ RetryOff /\ IdsOff /\ InitNorm /\ ExecOff /\ CmdOff /\ CmpOff /\ TtyOff /\ FsOff
SpecNorm == InitNormSpec /\ [][NextNorm]_vars

\* C8 (as claimed): normalising a normalised text changes nothing:
\* replace_all(replace_all(x)) = replace_all(x) for every text x.
C8_Idempotent == f_pc = "twice" => out2 = out1

(***************************************************************************)
(* The methods of TestCommand that run the command                         *)
(***************************************************************************)
Methods == {"output", "unchecked_output", "assert_err", "assert_non_empty_stderr",
            "assert_non_empty_stdout", "assert_empty_stdout"}

\* ExitStatus::success()
Success(o) == o.status = 0

\* the method is called on a configured command
InitExec ==
    /\ e_op \in Methods
    /\ e_pc = "call"
    /\ e_out = NoOutput
    /\ e_res = "none"
    /\ e_ret = NoOutput

\* self.cmd.output(): the child runs to its end and its output is captured,
\* or it cannot be spawned
CmdOutput ==
    /\ e_pc = "call"
    /\ UNCHANGED nonExecVars
    /\ e_out' \in Outputs \cup {SpawnError}
    /\ e_pc' = "captured"
    /\ UNCHANGED <<e_op, e_res, e_ret>>

\* the method ends in a panic
Panics ==
    /\ e_res' = "panicked"
    /\ e_ret' = NoOutput
    /\ e_pc' = "done"

\* the method returns o (NoOutput for a method that returns nothing)
Returns(o) ==
    /\ e_res' = "returned"
    /\ e_ret' = o
    /\ e_pc' = "done"

\* .unwrap() of the io::Result of self.cmd.output()
UnwrapFails == e_out = SpawnError

\* pub fn unchecked_output: self.cmd.output().unwrap()
UncheckedOutput ==
    /\ e_pc = "captured" /\ e_op = "unchecked_output"
    /\ UNCHANGED nonExecVars
    /\ IF UnwrapFails THEN Panics ELSE Returns(e_out)
    /\ UNCHANGED <<e_op, e_out>>

\* an expect_success that lets every status through
ExpectSuccessPanics_Never(out) == FALSE

\* fn expect_success: `if !out.status.success() { panic!(..) }`
ExpectSuccessPanics(out) == ~Success(out)

\* pub fn output: let output = self.cmd.output().unwrap(); self.expect_success(output)
OutputChecked ==
    /\ e_pc = "captured" /\ e_op = "output"
    /\ UNCHANGED nonExecVars
    /\ IF UnwrapFails \/ ExpectSuccessPanics(e_out) THEN Panics ELSE Returns(e_out)
    /\ UNCHANGED <<e_op, e_out>>

\* pub fn assert_err: `if o.status.success() { panic!(..) }`
AssertErr ==
    /\ e_pc = "captured" /\ e_op = "assert_err"
    /\ UNCHANGED nonExecVars
    /\ IF UnwrapFails \/ Success(e_out) THEN Panics ELSE Returns(NoOutput)
    /\ UNCHANGED <<e_op, e_out>>

\* pub fn assert_non_empty_stderr: `if o.status.success() || o.stderr.is_empty()`
AssertNonEmptyStderr ==
    /\ e_pc = "captured" /\ e_op = "assert_non_empty_stderr"
    /\ UNCHANGED nonExecVars
    /\ IF UnwrapFails \/ Success(e_out) \/ e_out.stderr = <<>>
       THEN Panics ELSE Returns(NoOutput)
    /\ UNCHANGED <<e_op, e_out>>

\* pub fn assert_non_empty_stdout: `if !o.status.success() || o.stdout.is_empty()`
AssertNonEmptyStdout ==
    /\ e_pc = "captured" /\ e_op = "assert_non_empty_stdout"
    /\ UNCHANGED nonExecVars
    /\ IF UnwrapFails \/ ~Success(e_out) \/ e_out.stdout = <<>>
       THEN Panics ELSE Returns(NoOutput)
    /\ UNCHANGED <<e_op, e_out>>

\* pub fn assert_empty_stdout: `if !o.status.success() || !o.stderr.is_empty()`
AssertEmptyStdout ==
    /\ e_pc = "captured" /\ e_op = "assert_empty_stdout"
    /\ UNCHANGED nonExecVars
    /\ IF UnwrapFails \/ ~Success(e_out) \/ e_out.stderr # <<>>
       THEN Panics ELSE Returns(NoOutput)
    /\ UNCHANGED <<e_op, e_out>>

NextExec ==
    \/ CmdOutput
    \/ UncheckedOutput
    \/ OutputChecked
    \/ AssertErr
    \/ AssertNonEmptyStderr
    \/ AssertNonEmptyStdout
    \/ AssertEmptyStdout

InitExecSpec == InitSess /\ RetryOff /\ IdsOff /\ NormOff /\ InitExec /\ CmdOff /\ CmpOff /\ TtyOff /\ FsOff
SpecExec == InitExecSpec /\ [][NextExec]_vars

\* the call has ended and the child had been spawned and captured
Captured(m) == e_pc = "done" /\ e_op = m /\ e_out \in Outputs

\* C9 (as claimed): assert_empty_stdout panics for every captured Output
\* whose stdout is not empty.
C9_EmptyStdoutAsserted ==
    (Captured("assert_empty_stdout") /\ e_out.stdout # <<>>) => e_res = "panicked"

\* C10: for a captured Output, output() panics exactly when the exit status
\* is not zero (an exit code other than 0, or none) and otherwise returns the
\* captured Output as it is; unchecked_output() returns the captured Output as
\* it is for every exit status.
C10_OutputChecksStatus ==
    /\ Captured("output") =>
            /\ e_res = "panicked" <=> e_out.status # 0
            /\ e_res = "returned" <=> e_ret = e_out
            /\ e_res \in {"panicked", "returned"}
    /\ Captured("unchecked_output") =>
            /\ e_res = "returned"
            /\ e_ret = e_out

\* C10 witness: output() has panicked on a captured Output with exit code 1.
C10_Witness ==
    /\ Captured("output")
    /\ e_out.status = 1
    /\ e_res = "panicked"

(***************************************************************************)
(* The command of one session: forge_bin, cast_bin, the configuration      *)
(* methods of TestCommand, the resets, and the spawn of the child          *)
(***************************************************************************)
\* the session the command belongs to, and the thread that owns it
CmdSession == 1
CmdThread == "t1"

\* forge_bin: Command::new(forge) and cmd.current_dir(self.inner.root())
ForgeBin == [CommandNew("forge") EXCEPT !.dir = WorkspaceRoot]

\* cast_bin: Command::new(cast), no directory is given
CastBin == CommandNew("cast")

\* the commands the two constructors put in the session: forge_command takes
\* forge_bin(); cast_command takes cast_bin() and calls current_dir(root) on it
ForgeCommandCmd == ForgeBin
CastCommandCmd == [CastBin EXCEPT !.dir = WorkspaceRoot]

\* the arguments tests give with arg and args
ArgInputs == {"a"}
ArgsInputs == {<<>>, <<"a", "a">>}
\* the commands tests give to set_cmd
SetCmdInputs == {CommandNew("other"), [CommandNew("other") EXCEPT !.dir = "d2"]}

\* a session made by forge_command or cast_command is live on CmdThread; it
\* has not called set_current_dir, or it has and holds the lock
InitCmd ==
    /\ locked \in BOOLEAN
    /\ cwd \in (IF locked THEN Dirs ELSE {InitDir})
    /\ st = [s \in Sessions |-> IF s = CmdSession THEN "live" ELSE "none"]
    /\ owner = [s \in Sessions |-> IF s = CmdSession THEN CmdThread ELSE NoThread]
    /\ saved_cwd = [s \in Sessions |-> InitDir]
    /\ current_dir_lock = [s \in Sessions |-> s = CmdSession /\ locked]
    /\ didSet = [s \in Sessions |-> s = CmdSession /\ locked]
    /\ pc = [t \in Threads |-> "idle"]
    /\ cur = [t \in Threads |-> NoSession]
    /\ arg = [t \in Threads |-> InitDir]
    /\ tlock = [t \in Threads |-> FALSE]
    /\ unwinding = [t \in Threads |-> FALSE]
    /\ nSetDir = IF locked THEN 1 ELSE 0
    /\ cmd \in {ForgeCommandCmd, CastCommandCmd}
    /\ c_last = "new"
    /\ overridden = FALSE
    /\ children = 0
    /\ child = NoChild

\* arg: self.cmd.arg(arg)
CmdArg(a) ==
    /\ c_last # "off"
    /\ UNCHANGED nonCmdVars
    /\ Len(cmd.args) < MaxArgs
    /\ cmd' = [cmd EXCEPT !.args = Append(@, a)]
    /\ c_last' = "arg"
    /\ UNCHANGED <<overridden, children, child>>

\* args: self.cmd.args(args)
CmdArgs(as) ==
    /\ c_last # "off"
    /\ UNCHANGED nonCmdVars
    /\ Len(cmd.args) + Len(as) <= MaxArgs
    /\ cmd' = [cmd EXCEPT !.args = @ \o as]
    /\ c_last' = "args"
    /\ UNCHANGED <<overridden, children, child>>

\* root_arg: self.arg("--root").arg(root)
RootArg ==
    /\ c_last # "off"
    /\ UNCHANGED nonCmdVars
    /\ Len(cmd.args) + 2 <= MaxArgs
    /\ cmd' = [cmd EXCEPT !.args = Append(Append(@, "--root"), WorkspaceRoot)]
    /\ c_last' = "root_arg"
    /\ UNCHANGED <<overridden, children, child>>

\* set_env: self.cmd.env(k, v.to_string())
SetEnv ==
    /\ c_last # "off"
    /\ UNCHANGED nonCmdVars
    /\ cmd' = [cmd EXCEPT !.env = "set"]
    /\ c_last' = "set_env"
    /\ UNCHANGED <<overridden, children, child>>

\* unset_env: self.cmd.env_remove(k)
UnsetEnv ==
    /\ c_last # "off"
    /\ UNCHANGED nonCmdVars
    /\ cmd' = [cmd EXCEPT !.env = "removed"]
    /\ c_last' = "unset_env"
    /\ UNCHANGED <<overridden, children, child>>

\* current_dir: self.cmd.current_dir(dir)
CurrentDir(d) ==
    /\ c_last # "off"
    /\ UNCHANGED nonCmdVars
    /\ cmd' = [cmd EXCEPT !.dir = d]
    /\ overridden' = TRUE
    /\ c_last' = "current_dir"
    /\ UNCHANGED <<children, child>>

\* set_cmd: self.cmd = cmd, a command the caller made
SetCmd(c) ==
    /\ c_last # "off"
    /\ UNCHANGED nonCmdVars
    /\ cmd' = c
    /\ overridden' = TRUE
    /\ c_last' = "set_cmd"
    /\ UNCHANGED <<children, child>>

\* a reset that makes the session anew: the old one is torn down
ForgeFuse_NewSession ==
    /\ c_last # "off"
    /\ UNCHANGED nonSessCmdVars
    /\ cmd' = ForgeBin
    /\ overridden' = FALSE
    /\ c_last' = "forge_fuse"
    /\ locked' = FALSE
    /\ current_dir_lock' = [current_dir_lock EXCEPT ![CmdSession] = FALSE]
    /\ cwd' = saved_cwd[CmdSession]
    /\ UNCHANGED <<st, owner, saved_cwd, didSet, pc, cur, arg, tlock, unwinding,
                   nSetDir>>
    /\ UNCHANGED <<children, child>>

\* forge_fuse: self.set_cmd(self.project.forge_bin())
ForgeFuse ==
    /\ c_last # "off"
    /\ UNCHANGED nonCmdVars
    /\ cmd' = ForgeBin
    /\ overridden' = FALSE
    /\ c_last' = "forge_fuse"
    /\ UNCHANGED <<children, child>>

\* cast_fuse: self.set_cmd(self.project.cast_bin())
CastFuse ==
    /\ c_last # "off"
    /\ UNCHANGED nonCmdVars
    /\ cmd' = CastBin
    /\ overridden' = FALSE
    /\ c_last' = "cast_fuse"
    /\ UNCHANGED <<children, child>>

\* the directory the child of a command starts in: the one given to
\* Command::current_dir, else the working directory of the process
ChildDir(c) == IF c.dir = NoDir THEN cwd ELSE c.dir

\* output / unchecked_output: self.cmd.output() spawns the child
CmdSpawn ==
    /\ c_last # "off"
    /\ UNCHANGED nonCmdVars
    /\ children < MaxSpawns
    /\ children' = children + 1
    /\ child' = [dir |-> ChildDir(cmd), overridden |-> overridden]
    /\ c_last' = "output"
    /\ UNCHANGED <<cmd, overridden>>

NextCmd ==
    \/ \E a \in ArgInputs : CmdArg(a)
    \/ \E as \in ArgsInputs : CmdArgs(as)
    \/ RootArg
    \/ SetEnv
    \/ UnsetEnv
    \/ \E d \in Dirs : CurrentDir(d)
    \/ \E c \in SetCmdInputs : SetCmd(c)
    \/ ForgeFuse
    \/ CastFuse
    \/ CmdSpawn

\* one session and its command, nothing else in the process
InitCmdSpec == InitCmd /\ RetryOff /\ IdsOff /\ NormOff /\ ExecOff /\ CmpOff /\ TtyOff /\ FsOff
SpecCmd == InitCmdSpec /\ [][NextCmd]_vars

\* the methods that configure or reset the command
ConfigOps == {"arg", "args", "root_arg", "set_env", "unset_env", "current_dir",
              "set_cmd", "forge_fuse", "cast_fuse"}

\* C11 (as claimed): every child a session has spawned, unless the caller had
\* chosen the directory of the command itself (current_dir, set_cmd), started
\* in the root of the workspace; also after forge_fuse and cast_fuse.
C11_ChildInWorkspaceRoot ==
    (children > 0 /\ ~child.overridden) => child.dir = WorkspaceRoot

\* C19: a step of arg, args, root_arg, set_env, unset_env, current_dir,
\* set_cmd, forge_fuse or cast_fuse spawns no child and leaves alone the
\* saved_cwd of the session, the guard it holds or does not hold, the mutex
\* and the process working directory.
C19_ConfigFrame ==
    [][(c_last' \in ConfigOps) =>
            /\ children' = children
            /\ child' = child
            /\ saved_cwd' = saved_cwd
            /\ current_dir_lock' = current_dir_lock
            /\ tlock' = tlock
            /\ locked' = locked
            /\ cwd' = cwd
      ]_vars

\* C19 witness: a session that holds the lock after set_current_dir has been
\* reset with forge_fuse: it still holds the lock and the directory it set is
\* still in effect.
C19_Witness ==
    /\ c_last = "forge_fuse"
    /\ cmd = ForgeBin
    /\ current_dir_lock[CmdSession]
    /\ locked
    /\ cwd # saved_cwd[CmdSession]
    /\ children = 0

(***************************************************************************)
(* OutputExt for process::Output: stdout_matches_path, stderr_matches_path *)
(***************************************************************************)
\* a byte sequence that is not UTF-8, and what from_utf8_lossy puts for it
BadByte == "0xFF"
Replacement == "U+FFFD"

\* pieces that do not change from run to run
Literals == { <<"o", "k">>, <<NL>>, <<"s">> }
\* elapsed-time phrases
Times == {
    <<"f", "i", "n", "i", "s", "h", "e", "d", " ", "i", "n", " ", "1", "s">>,
    <<"f", "i", "n", "i", "s", "h", "e", "d", " ", "i", "n", " ", "2", ".", "5", "m", "s">> }
\* spans from Location to Backtrace
Spans == {
    Location \o <<"a">> \o DotRs \o Backtrace,
    Location \o <<"b">> \o DotRs \o <<":", "7">> \o Backtrace }

\* a piece of the fixture paired with the piece the stream has in its place:
\* the same piece, two pieces that may change from run to run, ...
SamePairs == {<<f, f>> : f \in Literals}
VolatilePairs == (Times \X Times) \cup (Spans \X Spans)
\* ... or a difference in what the command printed: another word, a word that
\* is missing, a byte that is not UTF-8 where the fixture has the replacement
DiffPairs == { << <<"o", "k">>, <<"k", "o">> >>,
               << <<"o", "k">>, <<>> >>,
               << <<Replacement>>, <<BadByte>> >> }
SegPairs == SamePairs \cup VolatilePairs \cup DiffPairs

RECURSIVE SegsOf(_)
SegsOf(k) ==
    IF k = 0 THEN {<<>>}
    ELSE LET P == SegsOf(k - 1) IN P \cup {Append(p, q) : p \in P, q \in SegPairs}

\* the content of the fixture file and the bytes of the captured stream
RECURSIVE Flatten(_, _)
Flatten(segs, k) ==
    IF segs = <<>> THEN <<>> ELSE Head(segs)[k] \o Flatten(Tail(segs), k)
FixtureText == Flatten(m_segs, 1)
StreamBytes == Flatten(m_segs, 2)
\* the stream the method does not read
OtherStream == <<"z">>

\* String::from_utf8_lossy: what is not UTF-8 becomes U+FFFD
Lossy(s) == [i \in 1..Len(s) |-> IF s[i] = BadByte THEN Replacement ELSE s[i]]

\* the Output the method is called on
CmpOutput ==
    IF m_op = "stdout_matches_path"
    THEN [stdout |-> StreamBytes, stderr |-> OtherStream]
    ELSE [stdout |-> OtherStream, stderr |-> StreamBytes]

\* the stream each method reads: self.stdout, self.stderr
StreamOf(op, o) == IF op = "stdout_matches_path" THEN o.stdout ELSE o.stderr

InitCmp ==
    /\ m_file \in {"present", "missing"}
    /\ m_segs \in (IF m_file = "present" THEN SegsOf(MaxSegs) ELSE SegsOf(1))
    /\ m_op \in {"stdout_matches_path", "stderr_matches_path"}
    /\ m_pc = "call"
    /\ m_expected = <<>>
    /\ m_out = <<>>
    /\ m_res = "none"

\* stdout_matches_path / stderr_matches_path: read_to_string(..).unwrap(),
\* replace_all on the fixture and on the lossy stream, assert_eq!
MatchesPath ==
    /\ m_pc = "call"
    /\ UNCHANGED nonCmpVars
    /\ \/ /\ m_file = "missing"
          /\ m_res' = "panicked"
          /\ UNCHANGED <<m_expected, m_out>>
       \/ /\ m_file = "present"
          /\ m_expected' = ReplaceAll(FixtureText)
          /\ m_out' = ReplaceAll(Lossy(StreamOf(m_op, CmpOutput)))
          /\ m_res' = IF m_expected' = m_out' THEN "returned" ELSE "panicked"
    /\ m_pc' = "done"
    /\ UNCHANGED <<m_segs, m_file, m_op>>

NextCmp ==
    \/ MatchesPath

\* one comparison of a captured stream with a fixture
InitCmpSpec == InitSess /\ RetryOff /\ IdsOff /\ NormOff /\ ExecOff /\ CmdOff /\ InitCmp /\ TtyOff /\ FsOff
SpecCmp == InitCmpSpec /\ [][NextCmp]_vars

\* the fixture and the stream differ, and only in pieces that change from run
\* to run
VolatileOnly ==
    /\ \A i \in 1..Len(m_segs) : m_segs[i] \in SamePairs \cup VolatilePairs
    /\ \E i \in 1..Len(m_segs) : m_segs[i][1] # m_segs[i][2]

\* C14 (as claimed): a comparison whose fixture file was read succeeds exactly when
\* replace_all of the fixture text equals replace_all of the captured text; it
\* succeeds when the captured text equals the fixture text; and it succeeds
\* when the two differ only inside elapsed-time phrases and spans from
\* Location to Backtrace, texts that are not equal as they are.
C14_FixtureComparison ==
    (m_pc = "done" /\ m_file = "present") =>
        /\ (m_res = "returned") <=>
                (ReplaceAll(FixtureText) = ReplaceAll(Lossy(StreamBytes)))
        /\ (m_res = "panicked") <=>
                (ReplaceAll(FixtureText) # ReplaceAll(Lossy(StreamBytes)))
        /\ (Lossy(StreamBytes) = FixtureText) => m_res = "returned"
        /\ VolatileOnly => (m_res = "returned" /\ Lossy(StreamBytes) # FixtureText)

(***************************************************************************)
(* tty_fixture_path and the Lazy IS_TTY. A path is the sequence of its     *)
(* components, a component a sequence of characters.                       *)
(***************************************************************************)
\* the component `..`
ParentDir == <<".", ".">>
Tty == <<"t", "t", "y">>
\* file names of fixtures: without extension, with one, with two dots, a
\* hidden file, a name ending in a dot, an extension that is not UTF-8
FileNames == {
    <<"t">>,
    <<"t", ".", "o">>,
    <<"t", ".", "a", ".", "o">>,
    <<".", "h">>,
    <<"t", ".">>,
    <<"t", ".", BadByte>> }
PathInputs ==
    {<<>>, <<ParentDir>>, <<<<"d">>, ParentDir>>}
        \cup {<<n>> : n \in FileNames}
        \cup {<<<<"d">>, n>> : n \in FileNames}

\* Option<..>
None == [some |-> FALSE, val |-> <<>>]
Some(v) == [some |-> TRUE, val |-> v]

\* the position of the last dot of a file name, 0 when there is none
LastDot(name) == SetMax({0} \cup {i \in 1..Len(name) : name[i] = "."})

\* Path::file_name: the last component unless the path is empty or ends in `..`
FileNameOf(path) ==
    IF path = <<>> \/ path[Len(path)] = ParentDir THEN None
    ELSE Some(path[Len(path)])

\* Path::extension: what follows the last dot of the file name, unless the
\* name has no dot or nothing stands before the dot
Extension(path) ==
    LET f == FileNameOf(path) IN
    IF ~f.some THEN None
    ELSE LET d == LastDot(f.val) IN
         IF d <= 1 THEN None ELSE Some(SubSeq(f.val, d + 1, Len(f.val)))

\* Path::file_stem: the file name without its extension
FileStem(path) ==
    LET f == FileNameOf(path) IN
    IF ~f.some THEN None
    ELSE LET d == LastDot(f.val) IN
         IF d <= 1 THEN f ELSE Some(SubSeq(f.val, 1, d - 1))

\* OsStr::to_str: None when the text is not UTF-8
ToStr(o) ==
    IF o.some /\ \A i \in 1..Len(o.val) : o.val[i] # BadByte THEN o ELSE None

\* Path::with_extension: no change without a file name; else the stem, and a
\* dot and the extension when the extension is not empty
WithExtension(path, ext) ==
    LET s == FileStem(path) IN
    IF ~s.some THEN path
    ELSE [path EXCEPT ![Len(path)] =
                IF ext = <<>> THEN s.val ELSE s.val \o <<".">> \o ext]

\* the body of tty_fixture_path, for a value of *IS_TTY
TtyPath(path, tty) ==
    IF tty
    THEN LET ext == ToStr(Extension(path)) IN
         IF ext.some THEN WithExtension(path, Tty \o <<".">> \o ext.val)
         ELSE WithExtension(path, Tty)
    ELSE path

InitTty ==
    /\ atty \in BOOLEAN
    /\ IS_TTY = "unset"
    /\ t_path \in PathInputs
    /\ t_results = <<>>

\* the standard output of the process is redirected, or given a terminal
AttyChange ==
    /\ t_path \in PathInputs
    /\ UNCHANGED nonTtyVars
    /\ atty' = ~atty
    /\ UNCHANGED <<IS_TTY, t_path, t_results>>

\* a tty_fixture_path that asks atty at every call
TtyFixturePath_NoCache ==
    /\ t_path \in PathInputs
    /\ UNCHANGED nonTtyVars
    /\ Len(t_results) < MaxCalls
    /\ IS_TTY' = IF atty THEN "tty" ELSE "notty"
    /\ t_results' = Append(t_results, TtyPath(t_path, IS_TTY' = "tty"))
    /\ UNCHANGED <<atty, t_path>>

\* tty_fixture_path(path): *IS_TTY runs atty::is at the first access only
TtyFixturePath ==
    /\ t_path \in PathInputs
    /\ UNCHANGED nonTtyVars
    /\ Len(t_results) < MaxCalls
    /\ IS_TTY' = IF IS_TTY = "unset" THEN (IF atty THEN "tty" ELSE "notty") ELSE IS_TTY
    /\ t_results' = Append(t_results, TtyPath(t_path, IS_TTY' = "tty"))
    /\ UNCHANGED <<atty, t_path>>

NextTty ==
    \/ AttyChange
    \/ TtyFixturePath

\* calls of tty_fixture_path with one path
InitTtySpec == InitSess /\ RetryOff /\ IdsOff /\ NormOff /\ ExecOff /\ CmdOff /\ CmpOff /\ InitTty /\ FsOff
SpecTty == InitTtySpec /\ [][NextTty]_vars

\* the file name of the path given, and the position of its last dot
TName == t_path[Len(t_path)]
\* path p with its last component replaced by name n
WithName(p, n) == [p EXCEPT ![Len(p)] = n]

\* C12 (as claimed): every call returned the path unchanged when IS_TTY is
\* false; when IS_TTY is true it returned the path with `tty.` put in front of
\* its extension, or, when the path has no extension, a path whose extension
\* is `tty`; and all calls with the path returned the same.
C12_TtyPathAsClaimed ==
    \A i \in 1..Len(t_results) :
        /\ t_results[i] = t_results[1]
        /\ IS_TTY = "notty" => t_results[i] = t_path
        /\ (IS_TTY = "tty" /\ Extension(t_path).some) =>
                Extension(t_results[i]) = Extension(t_path)
                    /\ t_results[i] # t_path
                    /\ Extension(WithName(t_results[i], FileStem(t_results[i]).val)) = Some(Tty)
        /\ (IS_TTY = "tty" /\ ~Extension(t_path).some) =>
                Extension(t_results[i]) = Some(Tty)

\* C12 (amended): as claimed for a path that has a file name and whose
\* extension, if any, is UTF-8. When IS_TTY is true a path without a file name
\* (empty, or ending in `..`) is returned unchanged, and an extension that is
\* not UTF-8 is replaced by `tty`.
C12_TtyPath ==
    \A i \in 1..Len(t_results) :
        /\ t_results[i] = t_results[1]
        /\ IS_TTY \in {"tty", "notty"}
        /\ IS_TTY = "notty" => t_results[i] = t_path
        /\ (IS_TTY = "tty" /\ ~FileNameOf(t_path).some) => t_results[i] = t_path
        /\ (IS_TTY = "tty" /\ FileNameOf(t_path).some) =>
             LET d == LastDot(TName) IN
             IF d <= 1
             THEN t_results[i] = WithName(t_path, TName \o <<".">> \o Tty)
             ELSE IF ToStr(Extension(t_path)).some
             THEN t_results[i] = WithName(t_path,
                        SubSeq(TName, 1, d) \o Tty \o SubSeq(TName, d, Len(TName)))
             ELSE t_results[i] = WithName(t_path, SubSeq(TName, 1, d) \o Tty)

\* C12 witness: tests/fixture-like path d/t.o, asked twice under a terminal,
\* the standard output having been redirected between the calls: both calls
\* returned d/t.tty.o.
C12_Witness ==
    /\ t_path = << <<"d">>, <<"t", ".", "o">> >>
    /\ IS_TTY = "tty"
    /\ ~atty
    /\ Len(t_results) = 2
    /\ t_results[2] = << <<"d">>, <<"t", ".", "t", "t", "y", ".", "o">> >>

(***************************************************************************)
(* TestProject::create_file on a file system. A path is the sequence of    *)
(* its components; an absolute path begins with the component "/".         *)
(***************************************************************************)
\* self.root(): the root of the workspace, an existing directory
Root == <<"/", "w">>
\* the capacity of the BufWriter, in characters: data that long is written
\* through, shorter data waits in the buffer
Capacity == 2

\* the paths and contents tests give
RECURSIVE RelPathsOf(_)
RelPathsOf(k) ==
    IF k = 0 THEN {<<>>}
    ELSE LET P == RelPathsOf(k - 1) IN P \cup {<<c>> \o q : c \in {"src"}, q \in P}
FilePaths ==
    {q \o <<"F">> : q \in RelPathsOf(MaxDepth - 1)}
        \cup {<<>>, <<"/", "F">>, <<"/", "w", "F">>}
ContentInputs == {<<>>, <<"a">>, <<"a", "b">>}

\* Path::is_relative
IsRelative(path) == path = <<>> \/ path[1] # "/"

\* Path::join: an absolute argument replaces the path
Join(base, path) == IF IsRelative(path) THEN base \o path ELSE path

\* Path::parent: without the last component. The empty argument joins to the
\* root itself, whose parent is the directory above it
Parent(path) == SubSeq(path, 1, Len(path) - 1)

\* the path joined in create_file, with the trailing separator of an empty
\* argument left out
Joined == Join(Root, f_path)
ParentOfJoined == IF f_path = <<>> THEN Parent(Root) ELSE Parent(Joined)

\* the prefixes of a path that are not the file system root
Prefixes(path) == {SubSeq(path, 1, k) : k \in 1..Len(path)}

\* the file systems a call starts with: the workspace, with or without src,
\* with a file where src would be, with an older F, with a directory F
InitFiles == {
    [dirs |-> {<<"/">>, Root}, files |-> <<>>],
    [dirs |-> {<<"/">>, Root, Root \o <<"src">>}, files |-> <<>>],
    [dirs |-> {<<"/">>, Root}, files |-> (Root \o <<"src">>) :> <<"o">>],
    [dirs |-> {<<"/">>, Root}, files |-> (Root \o <<"F">>) :> <<"o", "l", "d">>],
    [dirs |-> {<<"/">>, Root, Root \o <<"F">>}, files |-> <<>>] }

InitFs ==
    /\ \E f \in InitFiles :
        /\ fs_dirs = f.dirs
        /\ fs_files = f.files
        /\ fs_dirs0 = f.dirs
        /\ fs_files0 = f.files
    /\ f_path \in FilePaths
    /\ f_contents \in ContentInputs
    /\ io_fail \in BOOLEAN
    /\ cf_pc = "call"
    /\ cf_buf = <<>>
    /\ cf_ret = NoPath

\* if !path.is_relative() { panic!(..) }
CreateFileCheck ==
    /\ cf_pc = "call"
    /\ UNCHANGED nonFsVars
    /\ cf_pc' = IF IsRelative(f_path) THEN "mkdir" ELSE "panicked"
    /\ UNCHANGED <<fs_dirs, fs_files, fs_dirs0, fs_files0, f_path, f_contents,
                   io_fail, cf_buf, cf_ret>>

\* pretty_err(parent, create_dir_all(parent)): the missing directories are
\* made; nothing is made when a file stands in the way
CreateFileDirs ==
    /\ cf_pc = "mkdir"
    /\ UNCHANGED nonFsVars
    /\ \/ /\ Prefixes(ParentOfJoined) \cap DOMAIN fs_files = {}
          /\ fs_dirs' = fs_dirs \cup Prefixes(ParentOfJoined)
          /\ cf_pc' = "create"
       \/ /\ Prefixes(ParentOfJoined) \cap DOMAIN fs_files # {}
          /\ cf_pc' = "panicked"
          /\ UNCHANGED fs_dirs
    /\ UNCHANGED <<fs_files, fs_dirs0, fs_files0, f_path, f_contents, io_fail,
                   cf_buf, cf_ret>>

\* pretty_err(&path, File::create(&path)): the file is made or emptied; it
\* fails on a directory
CreateFileOpen ==
    /\ cf_pc = "create"
    /\ UNCHANGED nonFsVars
    /\ \/ /\ Joined \notin fs_dirs
          /\ fs_files' = [q \in DOMAIN fs_files \cup {Joined} |->
                            IF q = Joined THEN <<>> ELSE fs_files[q]]
          /\ cf_pc' = "write"
       \/ /\ Joined \in fs_dirs
          /\ cf_pc' = "panicked"
          /\ UNCHANGED fs_files
    /\ UNCHANGED <<fs_dirs, fs_dirs0, fs_files0, f_path, f_contents, io_fail,
                   cf_buf, cf_ret>>

\* pretty_err(&path, writer.write_all(contents.as_bytes())) on a BufWriter:
\* data shorter than the buffer is kept, longer data is written through
CreateFileWrite ==
    /\ cf_pc = "write"
    /\ UNCHANGED nonFsVars
    /\ \/ /\ Len(f_contents) < Capacity
          /\ cf_buf' = f_contents
          /\ cf_pc' = "ret"
          /\ UNCHANGED fs_files
       \/ /\ Len(f_contents) >= Capacity
          /\ ~io_fail
          /\ fs_files' = [fs_files EXCEPT ![Joined] = f_contents]
          /\ cf_pc' = "ret"
          /\ UNCHANGED cf_buf
       \/ /\ Len(f_contents) >= Capacity
          /\ io_fail
          /\ cf_pc' = "panicked"
          /\ UNCHANGED <<fs_files, cf_buf>>
    /\ UNCHANGED <<fs_dirs, fs_dirs0, fs_files0, f_path, f_contents, io_fail,
                   cf_ret>>

\* `path` is returned and `writer` goes out of scope: the BufWriter writes
\* what it holds and drops the error if that fails
CreateFileReturn ==
    /\ cf_pc = "ret"
    /\ UNCHANGED nonFsVars
    /\ \/ /\ cf_buf # <<>>
          /\ ~io_fail
          /\ fs_files' = [fs_files EXCEPT ![Joined] = cf_buf]
       \/ /\ cf_buf # <<>>
          /\ io_fail
          /\ UNCHANGED fs_files
       \/ /\ cf_buf = <<>>
          /\ UNCHANGED fs_files
    /\ cf_buf' = <<>>
    /\ cf_ret' = Joined
    /\ cf_pc' = "done"
    /\ UNCHANGED <<fs_dirs, fs_dirs0, fs_files0, f_path, f_contents, io_fail>>

NextFs ==
    \/ CreateFileCheck
    \/ CreateFileDirs
    \/ CreateFileOpen
    \/ CreateFileWrite
    \/ CreateFileReturn

\* one call of create_file
InitFsSpec == InitSess /\ RetryOff /\ IdsOff /\ NormOff /\ ExecOff /\ CmdOff /\ CmpOff /\ TtyOff /\ InitFs
SpecFs == InitFsSpec /\ [][NextFs]_vars

\* C13 (as claimed): a call with an absolute path fails and the file system
\* stays as it was, no directory and no file made; a call with a relative
\* path p that has returned has made the missing parent directories, has
\* returned root().join(p), and the file there holds the contents given.
C13_CreateFile ==
    /\ ~IsRelative(f_path) =>
            /\ cf_pc \in {"call", "panicked"}
            /\ fs_dirs = fs_dirs0
            /\ fs_files = fs_files0
    /\ cf_pc = "done" =>
            /\ IsRelative(f_path)
            /\ cf_ret = Root \o f_path
            /\ Prefixes(Parent(cf_ret)) \subseteq fs_dirs
            /\ cf_ret \in DOMAIN fs_files
            /\ fs_files[cf_ret] = f_contents

(***************************************************************************)
(* Claims about the process session                                        *)
(***************************************************************************)
\* the guards of CURRENT_DIR_LOCK alive in the process
NumGuards == Cardinality(ThreadGuards) + Cardinality(SessionGuards)

\* C1: mutual exclusion. In every reachable state at most one guard of
\* CURRENT_DIR_LOCK exists, whether in a local of forge_command / cast_command /
\* drop or in the current_dir_lock field of a session, and the mutex is locked
\* exactly when one exists.
C1_MutualExclusion ==
    /\ NumGuards <= 1
    /\ locked <=> NumGuards = 1

\* C1 witness: a session holds the lock through set_current_dir while another
\* thread is inside forge_command, waiting for it.
C1_Witness ==
    \E t \in Threads, s \in Sessions :
        /\ pc[t] = "fc_lock"
        /\ current_dir_lock[s]
        /\ owner[s] # t

\* C2 (as claimed): a live session that has acquired the lock through
\* set_current_dir holds it, and the mutex is locked, in every state until the
\* session is torn down.
C2_HeldUntilTeardown ==
    \A s \in Sessions :
        (st[s] = "live" /\ didSet[s]) => (current_dir_lock[s] /\ locked)

HoldsLock(t) ==
    /\ locked
    /\ \/ tlock[t]
       \/ cur[t] # NoSession /\ current_dir_lock[cur[t]]

\* thread t takes a step out of position p
StepsFrom(t, p) == pc[t] = p /\ pc'[t] # p

\* session s gives the lock back in this step: set_current_dir drops the guard
\* it has, or the teardown of s returns
Releases(s) ==
    \/ current_dir_lock[s] /\ ~current_dir_lock'[s] /\ ~locked'
    \/ \E t \in Threads : cur[t] = s /\ StepsFrom(t, "drop_unlock")

\* C15 (as claimed): whenever a session that acquired the lock for a directory
\* change gives the lock back, the process working directory has been restored
\* to its saved_cwd before, so that no other session can acquire the lock while
\* the directory is still the one that session set.
C15_RestoredBeforeRelease ==
    [][\A s \in Sessions : (didSet[s] /\ Releases(s)) => cwd = saved_cwd[s]]_vars

\* C16: every step that changes the process working directory is the chdir of
\* set_current_dir or of a teardown; the thread that takes such a step, or the
\* step of forge_command / cast_command that reads the directory into
\* saved_cwd, holds a guard of CURRENT_DIR_LOCK when it takes it; and no other
\* thread holds one.
C16_ChdirUnderLock ==
    [][ /\ \A t \in Threads :
            (\/ StepsFrom(t, "scd_chdir")
             \/ StepsFrom(t, "drop_chdir")
             \/ StepsFrom(t, "fc_read")) =>
                (HoldsLock(t) /\ NumGuards = 1)
        /\ (cwd' # cwd) =>
                \E t \in Threads :
                    /\ StepsFrom(t, "scd_chdir") \/ StepsFrom(t, "drop_chdir")
                    /\ HoldsLock(t)
      ]_vars

\* C16 witness: a thread has changed the directory in set_current_dir, its
\* session holds the guard, and another thread that is creating a session
\* waits for the lock before it reads the directory.
C16_Witness ==
    \E t, u \in Threads, s \in Sessions :
        /\ owner[s] = t
        /\ didSet[s]
        /\ current_dir_lock[s]
        /\ pc[t] = "idle"
        /\ cwd # saved_cwd[s]
        /\ pc[u] = "fc_lock"

\* C18 (as claimed): after a set_current_dir that failed on a path that does
\* not exist, the teardowns that the panic sets off never wait for a guard
\* that a session of the same thread keeps: the lock the failed call acquired
\* is released by the teardown of its session, and nothing stays blocked.
C18_ReleasedAfterFailedChdir ==
    \A t \in Threads :
        (unwinding[t] /\ arg[t] = MissingDir) =>
            ~(/\ pc[t] = "drop_lock"
              /\ ~current_dir_lock[cur[t]]
              /\ \E s \in Sessions : owner[s] = t /\ current_dir_lock[s])

\* thread t is inside CURRENT_DIR_LOCK.lock(): in forge_command / cast_command,
\* in set_current_dir, or in the teardown of a session that has no guard
WaitsForLock(t) ==
    \/ pc[t] \in {"fc_lock", "scd_lock"}
    \/ pc[t] = "drop_lock" /\ ~current_dir_lock[cur[t]]

\* C21 (as claimed): no thread ever waits for CURRENT_DIR_LOCK while the guard
\* is kept by a session of that same thread; from such a state the call cannot
\* return, since only that thread could release the guard. So every call of
\* forge_command / cast_command, set_current_dir and teardown can return, also
\* when a thread owns several live sessions, one of which holds the lock.
C21_NoSelfDeadlock ==
    \A t \in Threads :
        WaitsForLock(t) =>
            ~\E s \in Sessions : owner[s] = t /\ current_dir_lock[s]

\* C22 (as claimed): once every session that was created has been torn down
\* and no call is in progress, the process working directory is the one in
\* effect before the first session was created; and no live session has a
\* saved_cwd other than that directory.
C22_DirectoryRestoredAtEnd ==
    /\ \A s \in Sessions : st[s] = "live" => saved_cwd[s] = InitDir
    /\ (/\ \A s \in Sessions : st[s] \in {"none", "dropped"}
        /\ \E s \in Sessions : st[s] = "dropped"
        /\ \A t \in Threads : pc[t] = "idle") => cwd = InitDir

====
